---- MODULE Spec2Model ----
(***************************************************************************)
(* A model of btc-staking-ts: the script builder (StakingScriptData), the  *)
(* PSBT builders of src/index.ts and the witness composer.                 *)
(*                                                                         *)
(* Buffers are sequences of bytes (0..255).  An optional Buffer argument   *)
(* is a record [present, buf].  The state is one call on the library: its  *)
(* name (op), its arguments (args), whether it has run (pc) and what it    *)
(* returned or threw (ret); or one StakingScriptData instance, or one set  *)
(* of scripts, and the results of the calls made on it so far.             *)
(***************************************************************************)
EXTENDS Integers, Sequences, FiniteSets, TLC

VARIABLES op, args, pc, ret

vars == <<op, args, pc, ret>>

(***************************************************************************)
(* Bounds of the model.                                                    *)
(***************************************************************************)
MaxInputs == 3
MaxValue == 3
MaxOuts == 2
MaxDen == 4
MaxKeys == 3

(***************************************************************************)
(* Generic helpers.                                                        *)
(***************************************************************************)
Range(s) == {s[i] : i \in 1..Len(s)}

RECURSIVE SeqsUpTo(_, _)
SeqsUpTo(S, n) ==
    IF n = 0 THEN {<<>>}
    ELSE LET shorter == SeqsUpTo(S, n - 1)
         IN  shorter \cup {Append(s, x) : s \in {t \in shorter : Len(t) = n - 1}, x \in S}

Repeat(b, n) == [i \in 1..n |-> b]

Undefined == [present |-> FALSE, buf |-> <<>>]
Some(b) == [present |-> TRUE, buf |-> b]

Networks == {"testnet"}

(***************************************************************************)
(* The fixed internal key.                                                 *)
(***************************************************************************)
key ==
    <<2, 80, 146, 155, 116, 193, 160, 73, 84, 183, 139, 75, 96, 53, 233, 122, 94,
      7, 138, 90, 15, 40, 236, 150, 213, 71, 191, 238, 154, 206, 128, 58, 192>>

internalPubkey == SubSeq(key, 2, 33)

PK_LENGTH == 32

(***************************************************************************)
(* Taproot, symbolically.  A script tree is the set of its leaves, each a  *)
(* pair <<path from the root, script>>; payments.p2tr commits to the       *)
(* internal key and the tree, and its last witness item (the control       *)
(* block) is determined by the key, the tree and the redeemed leaf.        *)
(***************************************************************************)
Leaf(script) == {<<(<<>>), script>>}
Branch(l, r) ==
    {<<(<<0>>) \o e[1], e[2]>> : e \in l} \cup {<<(<<1>>) \o e[1], e[2]>> : e \in r}

P2trAddress(scriptTree, network) ==
    [text |-> "", internalPubkey |-> internalPubkey, scriptTree |-> scriptTree,
     network |-> network]

\* an address the caller gave as a string
GivenAddress(text, network) ==
    [text |-> text, internalPubkey |-> <<>>, scriptTree |-> {}, network |-> network]

\* the address field of an output that carries a script instead
NoAddress == [text |-> "", internalPubkey |-> <<>>, scriptTree |-> {}, network |-> ""]

ControlBlock(scriptTree, redeem) ==
    [internalPubkey |-> internalPubkey, scriptTree |-> scriptTree,
     leaf |-> redeem.output, leafVersion |-> redeem.redeemVersion]

StakingScriptTree(timelockScript, unbondingScript, slashingScript) ==
    Branch(Leaf(slashingScript), Branch(Leaf(unbondingScript), Leaf(timelockScript)))

(***************************************************************************)
(* PSBTs.  A call returns [ok, err, psbt]; a call that throws returns no   *)
(* PSBT at all: the PSBT under construction is a local of the call.        *)
(***************************************************************************)
NoPsbt == [version |-> 0, inputs |-> <<>>, outputs |-> <<>>]
NewPsbt == [version |-> 2, inputs |-> <<>>, outputs |-> <<>>]
AddInput(psbt, in) == [psbt EXCEPT !.inputs = Append(@, in)]
AddOutput(psbt, out) == [psbt EXCEPT !.outputs = Append(@, out)]
SetVersion(psbt, v) == [psbt EXCEPT !.version = v]

Throw(msg) == [ok |-> FALSE, err |-> msg, psbt |-> NoPsbt]
Return(psbt) == [ok |-> TRUE, err |-> "", psbt |-> psbt]

NoSequence == [set |-> FALSE, n |-> 0]
Sequence(n) == [set |-> TRUE, n |-> n]

(***************************************************************************)
(* Buffer.from(hex, "hex"): a hex string is a sequence of digit values,    *)
(* 16 standing for a character that is no hex digit; decoding stops at the *)
(* first pair with such a character and drops a trailing odd digit.        *)
(***************************************************************************)
HexToBuffer(h) ==
    LET bad == {i \in 1..Len(h) : h[i] > 15}
        digits == IF bad = {} THEN Len(h)
                  ELSE (CHOOSE i \in bad : \A j \in bad : i <= j) - 1
    IN  [i \in 1..(digits \div 2) |-> 16 * h[2 * i - 1] + h[2 * i]]

(***************************************************************************)
(* stakingTransaction                                                      *)
(***************************************************************************)
ErrAmountFee == "Amount and fee must be bigger than 0"
ErrChangeAddress == "Invalid change address"
ErrPublicKey == "Invalid public key"
ErrInsufficientFunds == "Insufficient funds"

InvalidAddress == "not-an-address"
Addresses == {"bcrt1-change", InvalidAddress}

\* address.toOutputScript: nothing (falsy) for a string that is no address
ToOutputScript(addr, network) == IF addr = InvalidAddress THEN <<>> ELSE <<0, 20>>

RECURSIVE InputsSum(_)
InputsSum(utxos) ==
    IF utxos = <<>> THEN 0 ELSE InputsSum(SubSeq(utxos, 1, Len(utxos) - 1)) + utxos[Len(utxos)].value

StakingInput(input, publicKeyNoCoord) ==
    [hash |-> input.txid,
     index |-> input.vout,
     witnessUtxo |-> [script |-> HexToBuffer(input.scriptPubKey), value |-> input.value],
     tapInternalKey |-> publicKeyNoCoord]

RECURSIVE AddStakingInputs(_, _, _)
AddStakingInputs(psbt, utxos, publicKeyNoCoord) ==
    IF utxos = <<>> THEN psbt
    ELSE AddStakingInputs(AddInput(psbt, StakingInput(Head(utxos), publicKeyNoCoord)),
                          Tail(utxos), publicKeyNoCoord)

InsufficientFundsCheckMutant(inputsSum, amount, fee) == inputsSum < amount

InsufficientFundsCheck(inputsSum, amount, fee) == inputsSum < amount + fee

ChangeValueMutant(inputsSum, amount, fee) == inputsSum - amount

ChangeValue(inputsSum, amount, fee) == inputsSum - (amount + fee)

StakingOutputsMutant(stakingAddress, amount, fee, changeAddress, inputsSum, dataEmbedScript) ==
    LET o1 == <<[address |-> stakingAddress, script |-> <<>>, value |-> amount]>>
        o2 == IF inputsSum > amount + fee
              THEN Append(o1, [address |-> changeAddress, script |-> <<>>,
                               value |-> ChangeValue(inputsSum, amount, fee)])
              ELSE o1
    IN  IF dataEmbedScript.present
        THEN Append(o2, [address |-> NoAddress, script |-> dataEmbedScript.buf, value |-> 0])
        ELSE o2

StakingOutputs(stakingAddress, amount, fee, changeAddress, inputsSum, dataEmbedScript) ==
    LET o1 == <<[address |-> stakingAddress, script |-> <<>>, value |-> amount]>>
        o2 == IF dataEmbedScript.present
              THEN Append(o1, [address |-> NoAddress, script |-> dataEmbedScript.buf,
                               value |-> 0])
              ELSE o1
    IN  IF inputsSum > amount + fee
        THEN Append(o2, [address |-> changeAddress, script |-> <<>>,
                         value |-> ChangeValue(inputsSum, amount, fee)])
        ELSE o2

stakingTransaction(timelockScript, unbondingScript, slashingScript, amount, fee, changeAddress, inputUTXOs, network, publicKeyNoCoord, dataEmbedScript) ==
    IF amount <= 0 \/ fee <= 0 THEN Throw(ErrAmountFee)
    ELSE IF ToOutputScript(changeAddress, network) = <<>> THEN Throw(ErrChangeAddress)
    ELSE IF publicKeyNoCoord.present /\ Len(publicKeyNoCoord.buf) # PK_LENGTH
         THEN Throw(ErrPublicKey)
    ELSE LET psbt == AddStakingInputs(NewPsbt, inputUTXOs, publicKeyNoCoord)
             inputsSum == InputsSum(inputUTXOs)
         IN  IF InsufficientFundsCheck(inputsSum, amount, fee) THEN Throw(ErrInsufficientFunds)
             ELSE LET scriptTree ==
                          StakingScriptTree(timelockScript, unbondingScript, slashingScript)
                      stakingOutput == P2trAddress(scriptTree, network)
                  IN  Return([psbt EXCEPT !.outputs =
                                 StakingOutputs(stakingOutput, amount, fee,
                                                GivenAddress(changeAddress, network),
                                                inputsSum, dataEmbedScript)])

(***************************************************************************)
(* The calls of stakingTransaction the model makes.                        *)
(***************************************************************************)
SomeKey == Repeat(7, PK_LENGTH)
ShortKey == Repeat(7, PK_LENGTH - 1)
TimelockLeaf == <<1>>
UnbondingLeaf == <<2>>
SlashingLeaf == <<3>>
UnbondingTimelockLeaf == <<4>>
DataEmbedLeaf == <<106, 1, 0>>

UTXOs ==
    [txid : {<<171>>}, vout : {0}, scriptPubKey : {<<5, 1, 2, 0>>}, value : 0..MaxValue]

StakingCalls ==
    [timelockScript : {TimelockLeaf}, unbondingScript : {UnbondingLeaf},
     slashingScript : {SlashingLeaf},
     amount : -1..(MaxValue + 1), fee : -1..2,
     changeAddress : Addresses,
     inputUTXOs : SeqsUpTo(UTXOs, MaxInputs),
     network : Networks,
     publicKeyNoCoord : {Undefined, Some(SomeKey), Some(ShortKey)},
     dataEmbedScript : {Undefined, Some(DataEmbedLeaf)}]

Called(name) == op = name /\ pc = "done"

InitStaking ==
    /\ op = "stakingTransaction"
    /\ args \in StakingCalls
    /\ pc = "call"
    /\ ret = Throw("")

StakingTransactionCall ==
    /\ op = "stakingTransaction"
    /\ pc = "call"
    /\ pc' = "done"
    /\ ret' = stakingTransaction(args.timelockScript, args.unbondingScript,
                                 args.slashingScript, args.amount, args.fee,
                                 args.changeAddress, args.inputUTXOs, args.network,
                                 args.publicKeyNoCoord, args.dataEmbedScript)
    /\ UNCHANGED <<op, args>>

NextStaking == StakingTransactionCall

SpecStaking == InitStaking /\ [][NextStaking]_vars

(***************************************************************************)
(* Claims about stakingTransaction.                                        *)
(***************************************************************************)
RECURSIVE SumOutputValues(_)
SumOutputValues(outs) ==
    IF outs = <<>> THEN 0 ELSE Head(outs).value + SumOutputValues(Tail(outs))

RECURSIVE SumWitnessValues(_)
SumWitnessValues(ins) ==
    IF ins = <<>> THEN 0 ELSE Head(ins).witnessUtxo.value + SumWitnessValues(Tail(ins))

StakingSucceeded == Called("stakingTransaction") /\ ret.ok

HasChangeOutput(psbt) ==
    /\ Len(psbt.outputs) >= 2
    /\ psbt.outputs[Len(psbt.outputs)].address = GivenAddress(args.changeAddress, args.network)

\* C1: a successful stakingTransaction conserves value: the output values plus
\* the fee sum to the witness values of the inputs; the change output exists
\* exactly when the inputs exceed amount + fee, and then carries the excess.
C1_ValueConservation ==
    StakingSucceeded =>
        LET psbt == ret.psbt
            sumIn == SumWitnessValues(psbt.inputs)
        IN  /\ Len(psbt.inputs) = Len(args.inputUTXOs)
            /\ \A i \in 1..Len(psbt.inputs) :
                   psbt.inputs[i].witnessUtxo.value = args.inputUTXOs[i].value
            /\ SumOutputValues(psbt.outputs) + args.fee = sumIn
            /\ HasChangeOutput(psbt) <=> sumIn > args.amount + args.fee
            /\ HasChangeOutput(psbt) =>
                   psbt.outputs[Len(psbt.outputs)].value = sumIn - args.amount - args.fee

C1_Witness ==
    /\ StakingSucceeded
    /\ Len(ret.psbt.inputs) >= 2
    /\ args.dataEmbedScript.present
    /\ HasChangeOutput(ret.psbt)
    /\ ret.psbt.outputs[Len(ret.psbt.outputs)].value >= 2

\* C2: the outputs of a staking PSBT are, in this order, the P2TR staking
\* output of value amount, the data-embed output of value 0 when a data-embed
\* script was given, and the change output when the inputs exceed amount + fee.
C2_OutputOrder ==
    StakingSucceeded =>
        LET outs == ret.psbt.outputs
            embed == IF args.dataEmbedScript.present THEN 1 ELSE 0
            change == IF InputsSum(args.inputUTXOs) > args.amount + args.fee THEN 1 ELSE 0
        IN  /\ Len(outs) = 1 + embed + change
            /\ outs[1].address =
                   P2trAddress(StakingScriptTree(args.timelockScript, args.unbondingScript,
                                                 args.slashingScript), args.network)
            /\ outs[1].value = args.amount
            /\ embed = 1 =>
                   /\ outs[2].script = args.dataEmbedScript.buf
                   /\ outs[2].address = NoAddress
                   /\ outs[2].value = 0
            /\ change = 1 =>
                   outs[Len(outs)].address = GivenAddress(args.changeAddress, args.network)

C2_Witness ==
    /\ StakingSucceeded
    /\ Len(ret.psbt.outputs) = 3
    /\ ret.psbt.outputs[2].value = 0
    /\ ret.psbt.outputs[3].value > 0

StakingArgsValid ==
    /\ args.changeAddress # InvalidAddress
    /\ args.publicKeyNoCoord.present => Len(args.publicKeyNoCoord.buf) = PK_LENGTH

\* C3: stakingTransaction throws, returning no PSBT, when amount <= 0 or
\* fee <= 0 (amount-and-fee error) and when the inputs sum to less than
\* amount + fee (insufficient funds, the checks before it having passed); with
\* a valid change address and public key it succeeds in every other case.
C3_StakingErrors ==
    Called("stakingTransaction") =>
        LET sumIn == InputsSum(args.inputUTXOs)
            nonPositive == args.amount <= 0 \/ args.fee <= 0
        IN  /\ nonPositive => ret = Throw(ErrAmountFee)
            /\ sumIn < args.amount + args.fee => ~ret.ok /\ ret.psbt = NoPsbt
            /\ (~nonPositive /\ StakingArgsValid /\ sumIn < args.amount + args.fee)
                   => ret = Throw(ErrInsufficientFunds)
            /\ (~nonPositive /\ StakingArgsValid /\ sumIn >= args.amount + args.fee)
                   => ret.ok
            /\ ~ret.ok => ret.psbt = NoPsbt

C3_Witness ==
    /\ Called("stakingTransaction")
    /\ ret = Throw(ErrInsufficientFunds)
    /\ Len(args.inputUTXOs) >= 2
    /\ InputsSum(args.inputUTXOs) >= args.amount

(***************************************************************************)
(* Transactions that are spent from: [hash, outs], outs a sequence of      *)
(* [value, script].  JavaScript reads outs[i] from 0, and reading a field  *)
(* of an output that does not exist throws a TypeError.                    *)
(***************************************************************************)
ErrType == "TypeError"
ErrOutputIndex == "Output index must be bigger or equal to 0"

HasOut(tx, i) == i + 1 \in DOMAIN tx.outs
Out(tx, i) == tx.outs[i + 1]

TxOuts == [value : 0..MaxValue, script : {<<81, 32, 9>>}]
Transactions == [hash : {<<171>>}, outs : SeqsUpTo(TxOuts, MaxOuts)]

SpendInput(tx, index, utxoIndex, tapLeafScript, sequence) ==
    [hash |-> tx.hash,
     index |-> index,
     tapInternalKey |-> internalPubkey,
     witnessUtxo |-> [value |-> Out(tx, utxoIndex).value, script |-> Out(tx, utxoIndex).script],
     tapLeafScript |-> <<tapLeafScript>>,
     sequence |-> sequence]

TapLeafScript(scriptTree, redeem) ==
    [leafVersion |-> redeem.redeemVersion,
     script |-> redeem.output,
     controlBlock |-> ControlBlock(scriptTree, redeem)]

Redeem(script) == [output |-> script, redeemVersion |-> 192]

(***************************************************************************)
(* unbondingTransaction                                                    *)
(***************************************************************************)
ErrUnbondingFee == "Unbonding fee must be bigger than 0"

\* inputScriptTree
UnbondingInputTree(slashingScript, unbondingScript, timelockScript) ==
    Branch(Leaf(slashingScript), Branch(Leaf(unbondingScript), Leaf(timelockScript)))

\* outputScriptTree
UnbondingOutputTree(slashingScript, unbondingTimelockScript) ==
    Branch(Leaf(slashingScript), Leaf(unbondingTimelockScript))

unbondingTransaction(unbondingScript, unbondingTimelockScript, timelockScript, slashingScript, stakingTx, transactionFee, network, outputIndex) ==
    IF transactionFee <= 0 THEN Throw(ErrUnbondingFee)
    ELSE IF outputIndex < 0 THEN Throw(ErrOutputIndex)
    ELSE LET inputScriptTree ==
                 UnbondingInputTree(slashingScript, unbondingScript, timelockScript)
             inputTapLeafScript == TapLeafScript(inputScriptTree, Redeem(unbondingScript))
         IN  IF ~HasOut(stakingTx, 0) THEN Throw(ErrType)
             ELSE LET psbt == AddInput(NewPsbt,
                                       SpendInput(stakingTx, outputIndex, 0,
                                                  inputTapLeafScript, NoSequence))
                      unbondingOutput ==
                          P2trAddress(UnbondingOutputTree(slashingScript,
                                                          unbondingTimelockScript), network)
                  IN  Return(AddOutput(psbt,
                                       [address |-> unbondingOutput,
                                        value |-> Out(stakingTx, 0).value - transactionFee]))

UnbondingCalls ==
    [unbondingScript : {UnbondingLeaf}, unbondingTimelockScript : {UnbondingTimelockLeaf},
     timelockScript : {TimelockLeaf}, slashingScript : {SlashingLeaf},
     stakingTx : Transactions, transactionFee : -1..MaxValue, network : Networks,
     outputIndex : -1..MaxOuts]

InitUnbonding ==
    /\ op = "unbondingTransaction"
    /\ args \in UnbondingCalls
    /\ pc = "call"
    /\ ret = Throw("")

UnbondingTransactionCall ==
    /\ op = "unbondingTransaction"
    /\ pc = "call"
    /\ pc' = "done"
    /\ ret' = unbondingTransaction(args.unbondingScript, args.unbondingTimelockScript,
                                   args.timelockScript, args.slashingScript, args.stakingTx,
                                   args.transactionFee, args.network, args.outputIndex)
    /\ UNCHANGED <<op, args>>

NextUnbonding == UnbondingTransactionCall

SpecUnbonding == InitUnbonding /\ [][NextUnbonding]_vars

\* C4: a successful unbondingTransaction has one input and one output; the
\* input spends output number outputIndex of the staking transaction, its
\* witnessUtxo is that output, and the output is worth the input less the fee.
C4_UnbondingSpendsIndexedOutput ==
    (Called("unbondingTransaction") /\ ret.ok /\ HasOut(args.stakingTx, args.outputIndex)) =>
        /\ Len(ret.psbt.inputs) = 1
        /\ Len(ret.psbt.outputs) = 1
        /\ ret.psbt.inputs[1].index = args.outputIndex
        /\ ret.psbt.inputs[1].witnessUtxo.value = Out(args.stakingTx, args.outputIndex).value
        /\ ret.psbt.inputs[1].witnessUtxo.script = Out(args.stakingTx, args.outputIndex).script
        /\ ret.psbt.outputs[1].value =
               ret.psbt.inputs[1].witnessUtxo.value - args.transactionFee

(***************************************************************************)
(* Numbers that need not be whole.  A JavaScript number that is a rate or  *)
(* a product with a rate is a fraction [num, den], den > 0, and the        *)
(* arithmetic on it is exact.                                              *)
(***************************************************************************)
Rat(n, d) == [num |-> n, den |-> d]
RatInt(k) == Rat(k, 1)
RatMul(a, b) == Rat(a.num * b.num, a.den * b.den)
RatSub(a, b) == Rat(a.num * b.den - b.num * a.den, a.den * b.den)
RatAdd(a, b) == Rat(a.num * b.den + b.num * a.den, a.den * b.den)
RatLeq(a, b) == a.num * b.den <= b.num * a.den
RatEq(a, b) == a.num * b.den = b.num * a.den
RatIsInt(a) == a.num % a.den = 0
RatFloor(a) == a.num \div a.den

(***************************************************************************)
(* slashingTransaction                                                     *)
(***************************************************************************)
ErrSlashingRateFee == "Slashing rate and minimum fee must be bigger than 0"
ErrSlashingFunds == "Not enough funds to slash, stake more"

UserValueMutant(value, slashingRate, minimumFee) ==
    RatMul(RatInt(value), RatSub(RatInt(1), slashingRate))

UserValue(value, slashingRate, minimumFee) ==
    RatSub(RatMul(RatInt(value), RatSub(RatInt(1), slashingRate)), RatInt(minimumFee))

SlashedValue(value, slashingRate) == RatMul(RatInt(value), slashingRate)

UserValueTooSmallMutant(userValue) == ~RatLeq(RatInt(0), userValue)

UserValueTooSmall(userValue) == RatLeq(userValue, RatInt(0))

slashingTransaction(scriptTree, redeemOutput, transaction, slashingAddress, slashingRate, changeScript, minimumFee, network, outputIndex) ==
    IF RatLeq(slashingRate, RatInt(0)) \/ minimumFee <= 0 THEN Throw(ErrSlashingRateFee)
    ELSE IF outputIndex < 0 THEN Throw(ErrOutputIndex)
    ELSE LET tapLeafScript == TapLeafScript(scriptTree, Redeem(redeemOutput))
         IN  IF ~HasOut(transaction, 0) THEN Throw(ErrType)
             ELSE LET psbt == AddInput(NewPsbt,
                                       SpendInput(transaction, outputIndex, 0,
                                                  tapLeafScript, NoSequence))
                      userValue == UserValue(Out(transaction, 0).value, slashingRate,
                                             minimumFee)
                  IN  IF UserValueTooSmall(userValue) THEN Throw(ErrSlashingFunds)
                      ELSE LET slashed ==
                                   AddOutput(psbt,
                                             [address |-> GivenAddress(slashingAddress, network),
                                              value |-> SlashedValue(Out(transaction, 0).value,
                                                                     slashingRate)])
                               changeOutput == P2trAddress(Leaf(changeScript), network)
                           IN  Return(AddOutput(slashed,
                                                [address |-> changeOutput,
                                                 value |-> UserValue(Out(transaction, 0).value,
                                                                     slashingRate, minimumFee)]))

SlashingRates == UNION {{Rat(n, d) : n \in -1..(d + 1)} : d \in 1..MaxDen}

SlashingCalls ==
    [scriptTree : {StakingScriptTree(TimelockLeaf, UnbondingLeaf, SlashingLeaf)},
     redeemOutput : {SlashingLeaf},
     transaction : Transactions,
     slashingAddress : {"bcrt1-slashing"},
     slashingRate : SlashingRates,
     changeScript : {UnbondingTimelockLeaf},
     minimumFee : -1..MaxValue,
     network : Networks,
     outputIndex : -1..MaxOuts]

InitSlashing ==
    /\ op = "slashingTransaction"
    /\ args \in SlashingCalls
    /\ pc = "call"
    /\ ret = Throw("")

SlashingTransactionCall ==
    /\ op = "slashingTransaction"
    /\ pc = "call"
    /\ pc' = "done"
    /\ ret' = slashingTransaction(args.scriptTree, args.redeemOutput, args.transaction,
                                  args.slashingAddress, args.slashingRate, args.changeScript,
                                  args.minimumFee, args.network, args.outputIndex)
    /\ UNCHANGED <<op, args>>

NextSlashing == SlashingTransactionCall

SpecSlashing == InitSlashing /\ [][NextSlashing]_vars

SlashingSucceeded == Called("slashingTransaction") /\ ret.ok

C6_SlashingFloors ==
    SlashingSucceeded =>
        LET outs == ret.psbt.outputs
            v == RatInt(Out(args.transaction, 0).value)
            r == args.slashingRate
        IN  /\ RatIsInt(outs[1].value)
            /\ RatIsInt(outs[2].value)
            /\ RatEq(outs[1].value, RatInt(RatFloor(RatMul(v, r))))
            /\ RatEq(outs[2].value,
                     RatInt(RatFloor(RatMul(v, RatSub(RatInt(1), r))) - args.minimumFee))

OP_0 == 0
OP_PUSHDATA1 == 76
OP_PUSHDATA2 == 77
OP_PUSHDATA4 == 78
OP_1NEGATE == 79
OP_RESERVED == 80
OP_1 == 81
OP_16 == 96
OP_RETURN == 106
OP_NUMEQUAL == 156
OP_NUMEQUALVERIFY == 157
OP_CHECKSIG == 172
OP_CHECKSIGVERIFY == 173
OP_CHECKSEQUENCEVERIFY == 178
OP_CHECKSIGADD == 186

OpChunk(n) == [isOp |-> TRUE, op |-> n, data |-> <<>>]
DataChunk(buf) == [isOp |-> FALSE, op |-> 0, data |-> buf]

NoOp == 0 - 1

\* the opcode that pushes buf, when there is one
AsMinimalOP(buf) ==
    IF Len(buf) = 0 THEN OP_0
    ELSE IF Len(buf) # 1 THEN NoOp
    ELSE IF buf[1] >= 1 /\ buf[1] <= 16 THEN OP_RESERVED + buf[1]
    ELSE IF buf[1] = 129 THEN OP_1NEGATE
    ELSE NoOp

PushDataEncode(n) ==
    IF n < OP_PUSHDATA1 THEN <<n>>
    ELSE IF n < 256 THEN <<OP_PUSHDATA1, n>>
    ELSE <<OP_PUSHDATA2, n % 256, n \div 256>>

CompileChunk(c) ==
    IF c.isOp THEN <<c.op>>
    ELSE IF AsMinimalOP(c.data) # NoOp THEN <<AsMinimalOP(c.data)>>
    ELSE PushDataEncode(Len(c.data)) \o c.data

RECURSIVE Compile(_)
Compile(chunks) ==
    IF chunks = <<>> THEN <<>> ELSE CompileChunk(Head(chunks)) \o Compile(Tail(chunks))

\* [ok, chunks]: ok is FALSE where script.decompile returns null
RECURSIVE DecompileFrom(_, _, _)
DecompileFrom(buffer, i, chunks) ==
    IF i > Len(buffer) THEN [ok |-> TRUE, chunks |-> chunks]
    ELSE LET opcode == buffer[i]
         IN  IF opcode > OP_0 /\ opcode <= OP_PUSHDATA4
             THEN LET size == IF opcode < OP_PUSHDATA1 THEN 1
                              ELSE IF opcode = OP_PUSHDATA1 THEN 2
                              ELSE IF opcode = OP_PUSHDATA2 THEN 3
                              ELSE 5
                  IN  IF i + size - 1 > Len(buffer) THEN [ok |-> FALSE, chunks |-> <<>>]
                      ELSE LET number ==
                                   IF opcode < OP_PUSHDATA1 THEN opcode
                                   ELSE IF opcode = OP_PUSHDATA1 THEN buffer[i + 1]
                                   ELSE IF opcode = OP_PUSHDATA2
                                        THEN buffer[i + 1] + 256 * buffer[i + 2]
                                   ELSE buffer[i + 1] + 256 * buffer[i + 2]
                                        + 65536 * buffer[i + 3] + 16777216 * (buffer[i + 4] % 128)
                               start == i + size
                           IN  IF start - 1 + number > Len(buffer)
                               THEN [ok |-> FALSE, chunks |-> <<>>]
                               ELSE LET data == SubSeq(buffer, start, start + number - 1)
                                        chunk == IF AsMinimalOP(data) # NoOp
                                                 THEN OpChunk(AsMinimalOP(data))
                                                 ELSE DataChunk(data)
                                    IN  DecompileFrom(buffer, start + number,
                                                      Append(chunks, chunk))
             ELSE DecompileFrom(buffer, i + 1, Append(chunks, OpChunk(opcode)))

Decompile(buffer) == DecompileFrom(buffer, 1, <<>>)

ScriptNumSize(i) ==
    IF i > 8388607 THEN 4 ELSE IF i > 32767 THEN 3 ELSE IF i > 127 THEN 2
    ELSE IF i > 0 THEN 1 ELSE 0

RECURSIVE LittleEndian(_, _)
LittleEndian(value, size) ==
    IF size = 0 THEN <<>> ELSE <<value % 256>> \o LittleEndian(value \div 256, size - 1)

\* script.number.encode
ScriptNumberEncode(number) ==
    LET value == IF number < 0 THEN 0 - number ELSE number
        size == ScriptNumSize(value)
        buffer == LittleEndian(value, size)
    IN  IF size > 0 /\ number < 0
        THEN [buffer EXCEPT ![size] = @ + 128]
        ELSE buffer

RECURSIVE FromLittleEndian(_)
FromLittleEndian(buffer) ==
    IF buffer = <<>> THEN 0 ELSE Head(buffer) + 256 * FromLittleEndian(Tail(buffer))

ErrNumberOverflow == "Script number overflow"
ErrNumberNotMinimal == "Non-minimally encoded script number"

\* script.number.decode with its defaults (at most 4 bytes, minimal): [err, n]
ScriptNumberDecode(buffer) ==
    LET length == Len(buffer)
    IN  IF length = 0 THEN [err |-> "", n |-> 0]
        ELSE IF length > 4 THEN [err |-> ErrNumberOverflow, n |-> 0]
        ELSE IF buffer[length] % 128 = 0 /\ (length <= 1 \/ buffer[length - 1] < 128)
             THEN [err |-> ErrNumberNotMinimal, n |-> 0]
        ELSE IF buffer[length] >= 128
             THEN [err |-> "",
                   n |-> 0 - FromLittleEndian([buffer EXCEPT ![length] = @ - 128])]
        ELSE [err |-> "", n |-> FromLittleEndian(buffer)]

(***************************************************************************)
(* StakingScriptData: the timelock scripts.  self is the object's fields.  *)
(***************************************************************************)
MaxTimelock == 65535

buildTimelockScript(self, timelock) ==
    Compile(<<DataChunk(self.stakerKey),
              OpChunk(OP_CHECKSIGVERIFY),
              DataChunk(ScriptNumberEncode(timelock)),
              OpChunk(OP_CHECKSEQUENCEVERIFY)>>)

(***************************************************************************)
(* withdrawalTransaction and its two wrappers                              *)
(***************************************************************************)
ErrWithdrawalFee == "Withdrawal fee must be bigger than 0"
ErrTimelockScript == "Timelock script is not valid"

\* 0-based position of the time in the timelock script
timePosition == 2

SmallTimelockMutant(opcode) == opcode % 16

\* the timelock of a chunk that is a number: OP_1 .. OP_16 are 81 .. 96
SmallTimelock(opcode) ==
    LET wrap == opcode % 16
    IN  IF wrap = 0 THEN 16 ELSE wrap

\* [err, n]: the timelock read from the decompiled script
DecodeTimelock(decompiled) ==
    IF timePosition + 1 \notin DOMAIN decompiled THEN [err |-> ErrType, n |-> 0]
    ELSE LET chunk == decompiled[timePosition + 1]
         IN  IF ~chunk.isOp THEN ScriptNumberDecode(chunk.data)
             ELSE [err |-> "", n |-> SmallTimelock(chunk.op)]

withdrawalTransaction(timelockScript, scriptTree, tx, withdrawalAddress, withdrawalFee, network, outputIndex) ==
    IF withdrawalFee <= 0 THEN Throw(ErrWithdrawalFee)
    ELSE IF outputIndex < 0 THEN Throw(ErrOutputIndex)
    ELSE LET decompiled == Decompile(timelockScript)
         IN  IF ~decompiled.ok THEN Throw(ErrTimelockScript)
             ELSE LET timelock == DecodeTimelock(decompiled.chunks)
                  IN  IF timelock.err # "" THEN Throw(timelock.err)
                      ELSE IF ~HasOut(tx, outputIndex) THEN Throw(ErrType)
                      ELSE LET tapLeafScript ==
                                   TapLeafScript(scriptTree, Redeem(timelockScript))
                               psbt == AddInput(SetVersion(NewPsbt, 2),
                                                SpendInput(tx, outputIndex, outputIndex,
                                                           tapLeafScript,
                                                           Sequence(timelock.n)))
                           IN  Return(AddOutput(psbt,
                                   [address |-> GivenAddress(withdrawalAddress, network),
                                    value |-> Out(tx, outputIndex).value - withdrawalFee]))

EarlyUnbondedTreeMutant(slashingScript, unbondingTimelockScript) ==
    Branch(Leaf(unbondingTimelockScript), Leaf(slashingScript))

\* scriptTree of withdrawEarlyUnbondedTransaction
EarlyUnbondedTree(slashingScript, unbondingTimelockScript) ==
    Branch(Leaf(slashingScript), Leaf(unbondingTimelockScript))

\* scriptTree of withdrawTimelockUnbondedTransaction
TimelockUnbondedTree(slashingScript, unbondingScript, timelockScript) ==
    Branch(Leaf(slashingScript), Branch(Leaf(unbondingScript), Leaf(timelockScript)))

withdrawEarlyUnbondedTransaction(unbondingTimelockScript, slashingScript, tx, withdrawalAddress, withdrawalFee, network, outputIndex) ==
    withdrawalTransaction(unbondingTimelockScript,
                          EarlyUnbondedTree(slashingScript, unbondingTimelockScript),
                          tx, withdrawalAddress, withdrawalFee, network, outputIndex)

withdrawTimelockUnbondedTransaction(timelockScript, slashingScript, unbondingScript, tx, withdrawalAddress, withdrawalFee, network, outputIndex) ==
    withdrawalTransaction(timelockScript,
                          TimelockUnbondedTree(slashingScript, unbondingScript, timelockScript),
                          tx, withdrawalAddress, withdrawalFee, network, outputIndex)

(***************************************************************************)
(* The calls of the withdrawal builders the model makes: on the script     *)
(* buildTimelockScript returns for each timelock, and on scripts of other  *)
(* shapes.                                                                 *)
(***************************************************************************)
Staker == [stakerKey |-> SomeKey]

TwoOutTx ==
    [hash |-> <<171>>,
     outs |-> <<[value |-> 2, script |-> <<81, 32, 9>>], [value |-> 3, script |-> <<81, 32, 8>>]>>]

OddTimeChunks ==
    {OpChunk(OP_0), OpChunk(OP_1NEGATE), OpChunk(OP_RESERVED), OpChunk(OP_1), OpChunk(OP_16),
     OpChunk(OP_16 + 1), OpChunk(OP_CHECKSIG), OpChunk(OP_CHECKSEQUENCEVERIFY),
     DataChunk(<<17>>), DataChunk(<<0>>), DataChunk(<<232, 3>>), DataChunk(<<144>>),
     DataChunk(SomeKey)}

OtherLeafScripts ==
    {Compile(<<DataChunk(SomeKey), OpChunk(OP_CHECKSIGVERIFY), c,
               OpChunk(OP_CHECKSEQUENCEVERIFY)>>) : c \in OddTimeChunks}
    \cup {Compile(<<OpChunk(OP_CHECKSIGVERIFY), c>>) : c \in OddTimeChunks}
    \cup {<<>>, Compile(<<DataChunk(SomeKey)>>), <<OP_PUSHDATA1>>,
          <<32, 1, 2>>, <<OP_CHECKSIG, OP_CHECKSIG, 2, 144>>}

WithdrawalCalls ==
    [built : {FALSE}, timelock : {0}, fn : {"withdrawalTransaction"},
     timelockScript : OtherLeafScripts,
     tx : Transactions, withdrawalAddress : {"bcrt1-withdraw"},
     withdrawalFee : -1..1, network : Networks, outputIndex : -1..MaxOuts]

InitWithdrawal ==
    /\ pc = "call"
    /\ ret = Throw("")
    /\ \/ op = "buildTimelockScript"
          /\ args \in [self : {Staker}, timelock : 0..MaxTimelock]
       \/ op = "withdrawalTransaction"
          /\ args \in WithdrawalCalls

BuildTimelockScriptCall ==
    /\ op = "buildTimelockScript"
    /\ pc = "call"
    /\ pc' = "built"
    /\ ret' = [ok |-> TRUE, err |-> "", script |-> buildTimelockScript(args.self, args.timelock)]
    /\ UNCHANGED <<op, args>>

\* the caller passes the script just built on to one of the three builders
WithdrawBuiltScript(fn) ==
    /\ op = "buildTimelockScript"
    /\ pc = "built"
    /\ \E fee \in {1}, index \in 0..1 :
          /\ args' = [built |-> TRUE, timelock |-> args.timelock, fn |-> fn,
                      timelockScript |-> ret.script, tx |-> TwoOutTx,
                      withdrawalAddress |-> "bcrt1-withdraw", withdrawalFee |-> fee,
                      network |-> "testnet", outputIndex |-> index]
          /\ ret' = CASE fn = "withdrawalTransaction" ->
                           withdrawalTransaction(ret.script,
                               StakingScriptTree(ret.script, UnbondingLeaf, SlashingLeaf),
                               TwoOutTx, "bcrt1-withdraw", fee, "testnet", index)
                       [] fn = "withdrawEarlyUnbondedTransaction" ->
                           withdrawEarlyUnbondedTransaction(ret.script, SlashingLeaf,
                               TwoOutTx, "bcrt1-withdraw", fee, "testnet", index)
                       [] fn = "withdrawTimelockUnbondedTransaction" ->
                           withdrawTimelockUnbondedTransaction(ret.script, SlashingLeaf,
                               UnbondingLeaf, TwoOutTx, "bcrt1-withdraw", fee, "testnet",
                               index)
    /\ op' = "withdrawalTransaction"
    /\ pc' = "done"

WithdrawalOfBuilt == WithdrawBuiltScript("withdrawalTransaction")
WithdrawEarlyOfBuilt == WithdrawBuiltScript("withdrawEarlyUnbondedTransaction")
WithdrawTimelockOfBuilt == WithdrawBuiltScript("withdrawTimelockUnbondedTransaction")

WithdrawalTransactionCall ==
    /\ op = "withdrawalTransaction"
    /\ pc = "call"
    /\ pc' = "done"
    /\ ret' = withdrawalTransaction(args.timelockScript,
                                    StakingScriptTree(args.timelockScript, UnbondingLeaf,
                                                      SlashingLeaf),
                                    args.tx, args.withdrawalAddress, args.withdrawalFee,
                                    args.network, args.outputIndex)
    /\ UNCHANGED <<op, args>>

NextWithdrawal ==
    \/ BuildTimelockScriptCall
    \/ WithdrawalOfBuilt
    \/ WithdrawEarlyOfBuilt
    \/ WithdrawTimelockOfBuilt
    \/ WithdrawalTransactionCall

SpecWithdrawal == InitWithdrawal /\ [][NextWithdrawal]_vars

\* C8: for every t in 1..65535, each withdrawal builder applied to
\* buildTimelockScript(t) returns a version 2 PSBT whose one input has sequence
\* t; the script holds t as the one opcode OP_1..OP_16 when t <= 16 and as a
\* push of the 1 to 3 bytes of its minimal CScriptNum otherwise.
C8_TimelockRoundTrip ==
    (Called("withdrawalTransaction") /\ args.built /\ args.timelock >= 1) =>
        LET t == args.timelock
            script == args.timelockScript
            head == <<PK_LENGTH>> \o Staker.stakerKey \o <<OP_CHECKSIGVERIFY>>
            time == SubSeq(script, Len(head) + 1, Len(script) - 1)
        IN  /\ ret.ok
            /\ ret.psbt.version = 2
            /\ Len(ret.psbt.inputs) = 1
            /\ ret.psbt.inputs[1].sequence = Sequence(t)
            /\ SubSeq(script, 1, Len(head)) = head
            /\ script[Len(script)] = OP_CHECKSEQUENCEVERIFY
            /\ t <= 16 => time = <<OP_1 + (t - 1)>>
            /\ t > 16 =>
                   /\ Len(time) \in 2..4
                   /\ time[1] = Len(time) - 1
                   /\ FromLittleEndian(Tail(time)) = t
                   /\ time[Len(time)] < 128
                   /\ time[Len(time)] = 0 => time[Len(time) - 1] >= 128

C8_Witness ==
    /\ Called("withdrawalTransaction")
    /\ args.built
    /\ args.timelock = MaxTimelock
    /\ args.fn = "withdrawTimelockUnbondedTransaction"
    /\ ret.ok
    /\ ret.psbt.inputs[1].sequence.n = MaxTimelock
    /\ Len(args.timelockScript) = PK_LENGTH + 7

\* C9: withdrawalTransaction throws the invalid-timelock-script error, and
\* returns no PSBT, for a leaf script whose element at position 2 is an opcode
\* other than OP_1..OP_16 (the fee and the output index being valid).
C9_RejectsOtherOpcodes ==
    (/\ Called("withdrawalTransaction")
     /\ args.withdrawalFee > 0
     /\ args.outputIndex >= 0
     /\ HasOut(args.tx, args.outputIndex)
     /\ Decompile(args.timelockScript).ok
     /\ Len(Decompile(args.timelockScript).chunks) > timePosition
     /\ Decompile(args.timelockScript).chunks[timePosition + 1].isOp
     /\ Decompile(args.timelockScript).chunks[timePosition + 1].op \notin OP_1..OP_16)
        => ret = Throw(ErrTimelockScript)

(***************************************************************************)
(* StakingScriptData: the single-key and multi-key scripts.  A call gives  *)
(* [err, script, pks]: what it threw (or ""), the script it returned, and  *)
(* the array it was given as the call leaves it (sort works in place).     *)
(***************************************************************************)
ErrKeyLength == "Invalid key length"
ErrNoKeys == "No keys provided"
ErrThreshold == "Required number of valid signers is greater than number of provided keys"
ErrDuplicateKeys == "Duplicate keys provided"

\* Buffer.compare: the order of the first byte that differs, then of the lengths
RECURSIVE BufferCompare(_, _)
BufferCompare(a, b) ==
    IF a = <<>> /\ b = <<>> THEN 0
    ELSE IF a = <<>> THEN 0 - 1
    ELSE IF b = <<>> THEN 1
    ELSE IF Head(a) < Head(b) THEN 0 - 1
    ELSE IF Head(a) > Head(b) THEN 1
    ELSE BufferCompare(Tail(a), Tail(b))

\* s with x put after the elements that do not compare greater than x
RECURSIVE InsertSorted(_, _)
InsertSorted(s, x) ==
    IF s = <<>> THEN <<x>>
    ELSE IF BufferCompare(Head(s), x) > 0 THEN <<x>> \o s
    ELSE <<Head(s)>> \o InsertSorted(Tail(s), x)

RECURSIVE SortBuffers(_)
SortBuffers(s) ==
    IF s = <<>> THEN <<>>
    ELSE InsertSorted(SortBuffers(SubSeq(s, 1, Len(s) - 1)), s[Len(s)])

SortPksMutant(pks) == pks

\* pks.sort(Buffer.compare)
SortPks(pks) == SortBuffers(pks)

buildSingleKeyScript(pk, withVerify) ==
    IF Len(pk) # PK_LENGTH THEN [err |-> ErrKeyLength, script |-> <<>>]
    ELSE [err |-> "",
          script |-> Compile(<<DataChunk(pk),
                               OpChunk(IF withVerify THEN OP_CHECKSIGVERIFY
                                       ELSE OP_CHECKSIG)>>)]

RECURSIVE CheckSigAdds(_)
CheckSigAdds(pks) ==
    IF pks = <<>> THEN <<>>
    ELSE <<DataChunk(Head(pks)), OpChunk(OP_CHECKSIGADD)>> \o CheckSigAdds(Tail(pks))

buildMultiKeyScript(pks, threshold, withVerify) ==
    IF Len(pks) = 0 THEN [err |-> ErrNoKeys, script |-> <<>>, pks |-> pks]
    ELSE IF \E i \in DOMAIN pks : Len(pks[i]) # PK_LENGTH
         THEN [err |-> ErrKeyLength, script |-> <<>>, pks |-> pks]
    ELSE IF threshold > Len(pks) THEN [err |-> ErrThreshold, script |-> <<>>, pks |-> pks]
    ELSE IF Len(pks) = 1
         THEN [err |-> "", script |-> buildSingleKeyScript(pks[1], withVerify).script,
               pks |-> pks]
    ELSE LET sortedPks == SortPks(pks)
         IN  IF \E i \in 1..(Len(sortedPks) - 1) : sortedPks[i] = sortedPks[i + 1]
             THEN [err |-> ErrDuplicateKeys, script |-> <<>>, pks |-> sortedPks]
             ELSE LET scriptElements ==
                          <<DataChunk(sortedPks[1]), OpChunk(OP_CHECKSIG)>>
                          \o CheckSigAdds(Tail(sortedPks))
                          \o <<DataChunk(ScriptNumberEncode(threshold)),
                                OpChunk(IF withVerify THEN OP_NUMEQUALVERIFY
                                        ELSE OP_NUMEQUAL)>>
                  IN  [err |-> "", script |-> Compile(scriptElements), pks |-> sortedPks]

(***************************************************************************)
(* The calls of the multi-key script builder the model makes: on a list of *)
(* keys, then on the same keys in another order.                           *)
(***************************************************************************)
KeyA == <<0>> \o Repeat(255, PK_LENGTH - 1)
KeyB == <<1>> \o Repeat(0, PK_LENGTH - 1)
KeyC == <<1>> \o Repeat(0, PK_LENGTH - 2) \o <<1>>
MultiKeys == {KeyA, KeyB, KeyC, ShortKey}

Shuffles(s) ==
    {[i \in DOMAIN s |-> s[f[i]]] :
        f \in {g \in [DOMAIN s -> DOMAIN s] : \A i, j \in DOMAIN s : g[i] = g[j] => i = j}}

InitMultiKey ==
    /\ op = "buildMultiKeyScript"
    /\ \E p \in SeqsUpTo(MultiKeys, MaxKeys), t \in 0..(MaxKeys + 1), w \in BOOLEAN :
          \E q \in Shuffles(p) :
              args = [pks |-> p, shuffled |-> q, threshold |-> t, withVerify |-> w]
    /\ pc = "call"
    /\ ret = <<>>

MultiKeyScriptCall ==
    /\ op = "buildMultiKeyScript"
    /\ pc = "call"
    /\ pc' = "again"
    /\ ret' = <<buildMultiKeyScript(args.pks, args.threshold, args.withVerify)>>
    /\ UNCHANGED <<op, args>>

MultiKeyScriptCallShuffled ==
    /\ op = "buildMultiKeyScript"
    /\ pc = "again"
    /\ pc' = "done"
    /\ ret' = Append(ret, buildMultiKeyScript(args.shuffled, args.threshold, args.withVerify))
    /\ UNCHANGED <<op, args>>

NextMultiKey == MultiKeyScriptCall \/ MultiKeyScriptCallShuffled

SpecMultiKey == InitMultiKey /\ [][NextMultiKey]_vars

\* a sorts before b, for buffers of one length
LexLess(a, b) ==
    \E i \in 1..Len(a) : a[i] < b[i] /\ \A j \in 1..(i - 1) : a[j] = b[j]

HasEqualKeys(pks) == \E i, j \in DOMAIN pks : i # j /\ pks[i] = pks[j]

ThresholdChunk(t) == IF t = 0 THEN OpChunk(OP_0) ELSE OpChunk(OP_RESERVED + t)

\* C10: the multi-key script of a list of keys and of any reordering of it are
\* the same bytes (or both calls throw the same error); the script of two or
\* more keys holds them in ascending byte order, the first followed by
\* OP_CHECKSIG and the others by OP_CHECKSIGADD, then the threshold and
\* OP_NUMEQUAL or OP_NUMEQUALVERIFY; and two or more keys of which two are
\* equal are rejected in either order.
C10_MultiKeyOrderIndependent ==
    Called("buildMultiKeyScript") =>
        LET n == Len(args.pks)
            chunks == Decompile(ret[1].script).chunks
        IN  /\ ret[1].err = ret[2].err
            /\ ret[1].script = ret[2].script
            /\ (n >= 2 /\ HasEqualKeys(args.pks)) => ret[1].err # "" /\ ret[2].err # ""
            /\ (n >= 2 /\ HasEqualKeys(args.pks) /\ args.threshold <= n
                  /\ \A i \in 1..n : Len(args.pks[i]) = PK_LENGTH)
                   => ret[1].err = ErrDuplicateKeys /\ ret[2].err = ErrDuplicateKeys
            /\ (n >= 2 /\ ret[1].err = "") =>
                   /\ Len(chunks) = 2 * n + 2
                   /\ \A i \in 1..n : ~chunks[2 * i - 1].isOp
                   /\ {chunks[2 * i - 1].data : i \in 1..n} = Range(args.pks)
                   /\ \A i \in 1..(n - 1) :
                          LexLess(chunks[2 * i - 1].data, chunks[2 * i + 1].data)
                   /\ chunks[2] = OpChunk(OP_CHECKSIG)
                   /\ \A i \in 2..n : chunks[2 * i] = OpChunk(OP_CHECKSIGADD)
                   /\ chunks[2 * n + 1] = ThresholdChunk(args.threshold)
                   /\ chunks[2 * n + 2] =
                          OpChunk(IF args.withVerify THEN OP_NUMEQUALVERIFY ELSE OP_NUMEQUAL)

C10_Witness ==
    /\ Called("buildMultiKeyScript")
    /\ args.pks = <<KeyC, KeyA, KeyB>>
    /\ args.shuffled = <<KeyB, KeyC, KeyA>>
    /\ ret[1].err = ""
    /\ ret[1].script = ret[2].script
    /\ args.threshold = 2

(***************************************************************************)
(* createWitness                                                           *)
(*                                                                         *)
(* A hex string is the sequence of its digit values (see HexToBuffer).     *)
(* The call returns the witness stack; it works on a copy of               *)
(* paramsCovenants and on new Buffers, so its arguments stay as they were. *)
(***************************************************************************)
MaxSigs == 2

Reverse(s) == [i \in 1..Len(s) |-> s[Len(s) + 1 - i]]

\* covenantSigs.map(sig => ({ btc_pk_hex: Buffer.from(..), sig_hex: Buffer.from(..) }))
CovenantSigsBuffers(covenantSigs) ==
    [i \in DOMAIN covenantSigs |->
        [btc_pk_hex |-> HexToBuffer(covenantSigs[i].btc_pk_hex),
         sig_hex |-> HexToBuffer(covenantSigs[i].sig_hex)]]

ParamsCovenantsSortedMutant(paramsCovenants) == SortBuffers(paramsCovenants)

\* [...paramsCovenants].sort(Buffer.compare).reverse()
ParamsCovenantsSorted(paramsCovenants) == Reverse(SortBuffers(paramsCovenants))

FindCovenantSigMutant(covenantSigsBuffers, covenant) ==
    LET hits == {i \in DOMAIN covenantSigsBuffers :
                    BufferCompare(covenantSigsBuffers[i].btc_pk_hex, covenant) = 0}
    IN  IF hits = {} THEN Undefined
        ELSE Some(covenantSigsBuffers[CHOOSE i \in hits : \A j \in hits : j <= i].sig_hex)

\* covenantSigsBuffers.find(sig => sig.btc_pk_hex.compare(covenant) === 0)?.sig_hex
FindCovenantSig(covenantSigsBuffers, covenant) ==
    LET hits == {i \in DOMAIN covenantSigsBuffers :
                    BufferCompare(covenantSigsBuffers[i].btc_pk_hex, covenant) = 0}
    IN  IF hits = {} THEN Undefined
        ELSE Some(covenantSigsBuffers[CHOOSE i \in hits : \A j \in hits : i <= j].sig_hex)

createWitness(originalWitness, paramsCovenants, covenantSigs) ==
    LET covenantSigsBuffers == CovenantSigsBuffers(covenantSigs)
        paramsCovenantsSorted == ParamsCovenantsSorted(paramsCovenants)
        composedCovenantSigs ==
            [i \in DOMAIN paramsCovenantsSorted |->
                LET covenantSig == FindCovenantSig(covenantSigsBuffers, paramsCovenantsSorted[i])
                IN  IF covenantSig.present THEN covenantSig.buf ELSE <<>>]
    IN  composedCovenantSigs \o originalWitness

(***************************************************************************)
(* The calls of createWitness the model makes, each followed by the        *)
(* covenant multi-key script of the same keys (threshold 1, no verify).    *)
(***************************************************************************)
\* the hex string of a buffer
Hex(buf) ==
    [i \in 1..(2 * Len(buf)) |->
        IF i % 2 = 1 THEN buf[(i + 1) \div 2] \div 16 ELSE buf[i \div 2] % 16]

SigPair(pk, sig) == [btc_pk_hex |-> Hex(pk), sig_hex |-> Hex(sig)]

CovenantKeys == {KeyA, KeyB, KeyC}

SigPairs ==
    {SigPair(KeyA, <<161>>), SigPair(KeyA, <<162>>), SigPair(KeyC, <<193>>),
     [btc_pk_hex |-> Hex(KeyB) \o <<5>>, sig_hex |-> Hex(<<178>>) \o <<16, 1, 2>>]}

OriginalWitnesses == {<<(<<9>>)>>, <<(<<>>), <<8, 8>>, <<9>>>>}

InitWitness ==
    /\ op = "createWitness"
    /\ \E w \in OriginalWitnesses, p \in SeqsUpTo(CovenantKeys, MaxKeys),
          s \in SeqsUpTo(SigPairs, MaxSigs) :
          args = [originalWitness |-> w, paramsCovenants |-> p, covenantSigs |-> s]
    /\ pc = "call"
    /\ ret = <<>>

CreateWitnessCall ==
    /\ op = "createWitness"
    /\ pc = "call"
    /\ pc' = "witnessed"
    /\ ret' = <<createWitness(args.originalWitness, args.paramsCovenants, args.covenantSigs)>>
    /\ UNCHANGED <<op, args>>

\* the script builder sorts the array it is given in place
CovenantScriptCall ==
    /\ op = "createWitness"
    /\ pc = "witnessed"
    /\ pc' = "done"
    /\ LET r == buildMultiKeyScript(args.paramsCovenants, 1, FALSE)
       IN  /\ ret' = Append(ret, r)
           /\ args' = [args EXCEPT !.paramsCovenants = r.pks]
    /\ UNCHANGED op

NextWitness == CreateWitnessCall \/ CovenantScriptCall

SpecWitness == InitWitness /\ [][NextWitness]_vars

\* a sorts strictly before b in lexicographic unsigned-byte order
LexBefore(a, b) ==
    LET shorter == IF Len(a) < Len(b) THEN Len(a) ELSE Len(b)
        differ == {i \in 1..shorter : a[i] # b[i]}
    IN  IF differ = {} THEN Len(a) < Len(b)
        ELSE LET first == CHOOSE i \in differ : \A j \in differ : i <= j
             IN  a[first] < b[first]

\* the key at place i (from 1) of p sorted in descending order
DescendingKey(p, i) ==
    CHOOSE k \in Range(p) :
        /\ Cardinality({j \in DOMAIN p : LexBefore(k, p[j])}) < i
        /\ i <= Cardinality({j \in DOMAIN p : ~LexBefore(p[j], k)})

\* the signature of the first pair of s whose pk is k, or the empty string
FirstSigFor(s, k) ==
    LET hits == {i \in DOMAIN s : HexToBuffer(s[i].btc_pk_hex) = k}
    IN  IF hits = {} THEN <<>>
        ELSE HexToBuffer(s[CHOOSE i \in hits : \A j \in hits : i <= j].sig_hex)

Witnessed == op = "createWitness" /\ pc \in {"witnessed", "done"}

\* C11: the stack createWitness returns has |p| + |w| items, its last |w|
\* items are w in order, and item i of the first |p| is the signature of the
\* first pair of s whose pk is the i-th key of p in descending byte order, or
\* the empty string when s has no pair for that key.
C11_WitnessLayout ==
    Witnessed =>
        LET w == args.originalWitness
            p == args.paramsCovenants
            s == args.covenantSigs
            stack == ret[1]
        IN  /\ Len(stack) = Len(p) + Len(w)
            /\ SubSeq(stack, Len(p) + 1, Len(stack)) = w
            /\ \A i \in 1..Len(p) : stack[i] = FirstSigFor(s, DescendingKey(p, i))

C11_Witness ==
    /\ op = "createWitness"
    /\ pc = "witnessed"
    /\ args.paramsCovenants = <<KeyA, KeyC, KeyB>>
    /\ args.covenantSigs = <<SigPair(KeyA, <<162>>), SigPair(KeyA, <<161>>)>>
    /\ args.originalWitness = <<(<<>>), <<8, 8>>, <<9>>>>
    /\ ret[1] = <<(<<>>), <<>>, <<162>>, <<>>, <<8, 8>>, <<9>>>>

\* the keys of a compiled multi-key script of n keys, in the order the script checks them
ScriptKeys(scriptBuffer, n) ==
    LET chunks == Decompile(scriptBuffer).chunks
    IN  [i \in 1..n |-> chunks[2 * i - 1].data]

DistinctKeys(p) ==
    /\ \A i \in DOMAIN p : Len(p[i]) = PK_LENGTH
    /\ \A i, j \in DOMAIN p : i # j => p[i] # p[j]

\* C17: for two or more distinct covenant keys, the covenant slots of the
\* witness are, first to last, the slots of the keys in the reverse of the
\* order in which the multi-key script checks them: slot i holds the
\* signature (or the empty string) for the key the script checks at place
\* n + 1 - i, so the slot of the smallest key, which the script checks first,
\* is the last covenant slot, directly before the original witness.
C17_WitnessMirrorsScript ==
    (Called("createWitness") /\ Len(args.paramsCovenants) >= 2
        /\ DistinctKeys(args.paramsCovenants)) =>
        LET n == Len(args.paramsCovenants)
            s == args.covenantSigs
            stack == ret[1]
            scriptKeys == ScriptKeys(ret[2].script, n)
        IN  /\ ret[2].err = ""
            /\ Range(scriptKeys) = Range(args.paramsCovenants)
            /\ \A j \in 1..n : ~LexBefore(scriptKeys[j], scriptKeys[1])
            /\ \A i \in 1..n : stack[i] = FirstSigFor(s, scriptKeys[n + 1 - i])
            /\ stack[n] = FirstSigFor(s, scriptKeys[1])
            /\ SubSeq(stack, n + 1, Len(stack)) = args.originalWitness

C17_Witness ==
    /\ Called("createWitness")
    /\ Range(args.paramsCovenants) = {KeyA, KeyB, KeyC}
    /\ Len(args.paramsCovenants) = 3
    /\ args.covenantSigs = <<SigPair(KeyC, <<193>>), SigPair(KeyA, <<161>>)>>
    /\ args.originalWitness = <<(<<9>>)>>
    /\ ret[1] = <<(<<193>>), <<>>, <<161>>, <<9>>>>
    /\ ScriptKeys(ret[2].script, 3) = <<KeyA, KeyB, KeyC>>

(***************************************************************************)
(* StakingScriptData                                                       *)
(*                                                                         *)
(* The constructor keeps the caller's two key arrays themselves, not       *)
(* copies, so the arrays of args are the arrays of the instance: self is   *)
(* read from args, and a method that sorts an array in place changes args. *)
(* A method returns [err, out, self]: what it threw (or ""), the scripts   *)
(* it returned (one, or the five of buildScripts) and the instance as the  *)
(* call leaves it.                                                         *)
(***************************************************************************)
ErrMissingValues == "Missing required input values"
ErrInvalidScriptData == "Invalid script data provided"
ErrTypeError == "TypeError"
ErrRangeError == "RangeError"

Self(a) ==
    [stakerKey |-> a.stakerKey.buf,
     finalityProviderKeys |-> a.finalityProviderKeys.buf,
     covenantKeys |-> a.covenantKeys.buf,
     covenantThreshold |-> a.covenantThreshold,
     stakingTimeLock |-> a.stakingTimelock,
     unbondingTimeLock |-> a.unbondingTimelock,
     magicBytes |-> a.magicBytes.buf]

validate(self) ==
    IF Len(self.stakerKey) # PK_LENGTH THEN FALSE
    ELSE IF \E i \in DOMAIN self.finalityProviderKeys :
                Len(self.finalityProviderKeys[i]) # PK_LENGTH THEN FALSE
    ELSE IF \E i \in DOMAIN self.covenantKeys :
                Len(self.covenantKeys[i]) # PK_LENGTH THEN FALSE
    ELSE IF self.stakingTimeLock > MaxTimelock THEN FALSE
    ELSE TRUE

\* the error the constructor throws, or ""
StakingScriptData(a) ==
    IF \/ ~a.stakerKey.present
       \/ ~a.finalityProviderKeys.present
       \/ ~a.covenantKeys.present
       \/ a.covenantThreshold = 0
       \/ a.stakingTimelock = 0
       \/ a.unbondingTimelock = 0
       \/ ~a.magicBytes.present
    THEN ErrMissingValues
    ELSE IF ~validate(Self(a)) THEN ErrInvalidScriptData
    ELSE ""

Threw(msg, self) == [err |-> msg, out |-> <<>>, self |-> self]
Returned(scriptBuffer, self) == [err |-> "", out |-> <<scriptBuffer>>, self |-> self]

buildStakingTimelockScript(self) ==
    Returned(buildTimelockScript(self, self.stakingTimeLock), self)

buildUnbondingTimelockScript(self) ==
    Returned(buildTimelockScript(self, self.unbondingTimeLock), self)

buildUnbondingScript(self) ==
    LET single == buildSingleKeyScript(self.stakerKey, TRUE)
        multi == buildMultiKeyScript(self.covenantKeys, self.covenantThreshold, FALSE)
        after == [self EXCEPT !.covenantKeys = multi.pks]
    IN  IF single.err # "" THEN Threw(single.err, self)
        ELSE IF multi.err # "" THEN Threw(multi.err, after)
        ELSE Returned(single.script \o multi.script, after)

buildSlashingScript(self) ==
    LET single == buildSingleKeyScript(self.stakerKey, TRUE)
        finalityProviders == buildMultiKeyScript(self.finalityProviderKeys, 1, TRUE)
        afterFirst == [self EXCEPT !.finalityProviderKeys = finalityProviders.pks]
        covenants == buildMultiKeyScript(self.covenantKeys, self.covenantThreshold, FALSE)
        afterSecond == [afterFirst EXCEPT !.covenantKeys = covenants.pks]
    IN  IF single.err # "" THEN Threw(single.err, self)
        ELSE IF finalityProviders.err # "" THEN Threw(finalityProviders.err, afterFirst)
        ELSE IF covenants.err # "" THEN Threw(covenants.err, afterSecond)
        ELSE Returned(single.script \o finalityProviders.script \o covenants.script,
                      afterSecond)

\* Buffer.alloc(2).writeUInt16BE(value)
WriteUInt16BE(value) == <<value \div 256, value % 256>>

\* this.#finalityProviderKeys[0]
FirstKey(keys) == keys[1]

buildDataEmbedScript(self) ==
    IF self.stakingTimeLock < 0 \/ self.stakingTimeLock > 65535 THEN Threw(ErrRangeError, self)
    ELSE IF self.finalityProviderKeys = <<>> THEN Threw(ErrTypeError, self)
    ELSE LET version == <<0>>
             stakingTimeLock == WriteUInt16BE(self.stakingTimeLock)
             serializedStakingData ==
                 self.magicBytes \o version \o self.stakerKey
                 \o FirstKey(self.finalityProviderKeys) \o stakingTimeLock
         IN  Returned(Compile(<<OpChunk(OP_RETURN), DataChunk(serializedStakingData)>>), self)

\* the value of first, handed to what follows it
Then(first, Rest(_)) == CHOOSE r \in {Rest(x) : x \in {first}} : TRUE

buildScripts(self) ==
    Then(buildStakingTimelockScript(self), LAMBDA timelockScript :
    IF timelockScript.err # "" THEN timelockScript ELSE
    Then(buildUnbondingScript(timelockScript.self), LAMBDA unbondingScript :
    IF unbondingScript.err # "" THEN unbondingScript ELSE
    Then(buildSlashingScript(unbondingScript.self), LAMBDA slashingScript :
    IF slashingScript.err # "" THEN slashingScript ELSE
    Then(buildUnbondingTimelockScript(slashingScript.self), LAMBDA unbondingTimelockScript :
    IF unbondingTimelockScript.err # "" THEN unbondingTimelockScript ELSE
    Then(buildDataEmbedScript(unbondingTimelockScript.self), LAMBDA dataEmbedScript :
    IF dataEmbedScript.err # "" THEN dataEmbedScript ELSE
    [err |-> "",
     out |-> timelockScript.out \o unbondingScript.out \o slashingScript.out
             \o unbondingTimelockScript.out \o dataEmbedScript.out,
     self |-> dataEmbedScript.self])))))

Methods ==
    {"buildStakingTimelockScript", "buildUnbondingTimelockScript", "buildUnbondingScript",
     "buildSlashingScript", "buildDataEmbedScript", "buildScripts"}

Invoke(method, self) ==
    CASE method = "buildStakingTimelockScript" -> buildStakingTimelockScript(self)
      [] method = "buildUnbondingTimelockScript" -> buildUnbondingTimelockScript(self)
      [] method = "buildUnbondingScript" -> buildUnbondingScript(self)
      [] method = "buildSlashingScript" -> buildSlashingScript(self)
      [] method = "buildDataEmbedScript" -> buildDataEmbedScript(self)
      [] method = "buildScripts" -> buildScripts(self)

(***************************************************************************)
(* The life of one instance: the constructor on arguments of the caller,   *)
(* then script-building methods in any order and any number of times.      *)
(* args.given is the two key arrays in the order the caller passed them;   *)
(* ret.results[m] is the set of results method m has returned so far.      *)
(***************************************************************************)
MagicBytes == <<1, 2, 3, 4>>
StakingTimelocks == {0, 258, 65536}
UnbondingTimelocks == {0, 1, 65536}
FinalityProviderLists ==
    {<<>>, <<KeyA>>, <<KeyA, KeyB>>, <<KeyB, KeyA>>, <<KeyA, KeyA>>, <<ShortKey>>}
CovenantLists ==
    {<<>>, <<KeyB>>, <<KeyB, KeyC>>, <<KeyC, KeyB>>, <<KeyC, KeyC>>, <<KeyC, KeyA, KeyB>>}
Thresholds == 0..MaxKeys

NoResults == [m \in Methods |-> {}]

InitScriptData ==
    /\ op = "StakingScriptData"
    /\ \E sk \in {Undefined, Some(SomeKey), Some(ShortKey)},
          fp \in {Undefined} \cup {Some(l) : l \in FinalityProviderLists},
          cov \in {Undefined} \cup {Some(l) : l \in CovenantLists},
          t \in Thresholds,
          st \in StakingTimelocks, ut \in UnbondingTimelocks,
          mb \in {Undefined, Some(MagicBytes)} :
          args = [stakerKey |-> sk, finalityProviderKeys |-> fp, covenantKeys |-> cov,
                  covenantThreshold |-> t, stakingTimelock |-> st,
                  unbondingTimelock |-> ut, magicBytes |-> mb,
                  given |-> [finalityProviderKeys |-> fp.buf, covenantKeys |-> cov.buf]]
    /\ pc = "call"
    /\ ret = [err |-> "", results |-> NoResults]

Construct ==
    /\ op = "StakingScriptData"
    /\ pc = "call"
    /\ LET err == StakingScriptData(args)
       IN  /\ pc' = IF err = "" THEN "constructed" ELSE "failed"
           /\ ret' = [ret EXCEPT !.err = err]
    /\ UNCHANGED <<op, args>>

MethodCall(method) ==
    /\ pc = "constructed"
    /\ \E r \in {Invoke(method, Self(args))} :
           /\ ret' = [ret EXCEPT !.results[method] = @ \cup {[err |-> r.err, out |-> r.out]}]
           /\ args' = [args EXCEPT !.finalityProviderKeys = Some(r.self.finalityProviderKeys),
                                   !.covenantKeys = Some(r.self.covenantKeys)]
    /\ op' = method
    /\ UNCHANGED pc

BuildStakingTimelockScriptCall == MethodCall("buildStakingTimelockScript")
BuildUnbondingTimelockScriptCall == MethodCall("buildUnbondingTimelockScript")
BuildUnbondingScriptCall == MethodCall("buildUnbondingScript")
BuildSlashingScriptCall == MethodCall("buildSlashingScript")
BuildDataEmbedScriptCall == MethodCall("buildDataEmbedScript")
BuildScriptsCall == MethodCall("buildScripts")

NextScriptData ==
    \/ Construct
    \/ BuildStakingTimelockScriptCall
    \/ BuildUnbondingTimelockScriptCall
    \/ BuildUnbondingScriptCall
    \/ BuildSlashingScriptCall
    \/ BuildDataEmbedScriptCall
    \/ BuildScriptsCall

SpecScriptData == InitScriptData /\ [][NextScriptData]_vars

Constructed == pc = "constructed"

\* what the constructor is to insist on
ValidParameters ==
    LET fp == args.given.finalityProviderKeys
        cov == args.given.covenantKeys
    IN  /\ args.stakerKey.present /\ Len(args.stakerKey.buf) = PK_LENGTH
        /\ args.finalityProviderKeys.present /\ fp # <<>>
        /\ \A i \in DOMAIN fp : Len(fp[i]) = PK_LENGTH
        /\ args.covenantKeys.present /\ cov # <<>>
        /\ \A i \in DOMAIN cov : Len(cov[i]) = PK_LENGTH
        /\ args.magicBytes.present
        /\ args.stakingTimelock \in 1..65535
        /\ args.unbondingTimelock \in 1..65535
        /\ args.covenantThreshold \in 1..Len(cov)

\* C12: a value is constructed only when every key is 32 bytes, the staking
\* timelock is at most 65535, the covenant threshold is at most the number
\* of covenant keys and every field is present and non-empty; so a
\* constructed value has its threshold in 1..|covenant keys| and both
\* timelocks in 1..65535; and a construction that fails throws an error.
C12_ConstructorValidates ==
    /\ pc = "failed" => ret.err \in {ErrMissingValues, ErrInvalidScriptData}
    /\ Constructed => ValidParameters

\* C13: each script-building method of an instance with valid parameters
\* returns the same bytes (or the same error) every time it is called,
\* whatever was called before.
C13_ScriptBuildingPure ==
    (Constructed /\ ValidParameters) => \A m \in Methods : Cardinality(ret.results[m]) <= 1

\* the data-embed script of the claim: OP_RETURN, one push of
\* magic || 0x00 || staker key || first finality-provider key || timelock (2 bytes, big-endian)
DataEmbedLayout(magic, stakerKey, finalityProviderKey, timelock) ==
    <<OP_RETURN, Len(magic) + 67>> \o magic \o <<0>> \o stakerKey \o finalityProviderKey
    \o <<timelock \div 256, timelock % 256>>

\* C15: the data-embed script of an instance with valid parameters, called directly or
\* through buildScripts, holds the finality-provider key that was at index 0
\* of the sequence given at construction.
C15_DataEmbedLayout ==
    (Constructed /\ ValidParameters) =>
        LET expected == DataEmbedLayout(args.magicBytes.buf, args.stakerKey.buf,
                                        args.given.finalityProviderKeys[1],
                                        args.stakingTimelock)
        IN  /\ \A r \in ret.results["buildDataEmbedScript"] :
                   r.err = "" => r.out = <<expected>>
            /\ \A r \in ret.results["buildScripts"] :
                   r.err = "" => r.out[5] = expected

\* C16: the key arrays the caller passed to the constructor (valid
\* parameters) stay in the order the caller gave them, whatever methods are
\* called.
C16_InputsReadOnly ==
    (Constructed /\ ValidParameters) =>
        /\ args.finalityProviderKeys.buf = args.given.finalityProviderKeys
        /\ args.covenantKeys.buf = args.given.covenantKeys

(***************************************************************************)
(* One set of scripts through the four builders that commit to them or     *)
(* spend them: stakingTransaction, unbondingTransaction and the two        *)
(* withdrawals, each called once, in any order.  ret holds, for each       *)
(* builder, whether it was called and what it returned.                    *)
(***************************************************************************)
Builders ==
    {"stakingTransaction", "unbondingTransaction",
     "withdrawTimelockUnbondedTransaction", "withdrawEarlyUnbondedTransaction"}

NotCalled == [called |-> FALSE, result |-> Throw("")]

LifecycleNetworks == {"testnet", "bitcoin"}

InitLifecycle ==
    /\ op = "lifecycle"
    /\ \E t \in {1, 17, 1000}, u \in {5, 1000},
          unbondingScript \in {UnbondingLeaf, SlashingLeaf},
          slashingScript \in {SlashingLeaf, UnbondingTimelockLeaf},
          network \in LifecycleNetworks :
          args = [timelockScript |-> buildTimelockScript(Staker, t),
                  unbondingTimelockScript |-> buildTimelockScript(Staker, u),
                  unbondingScript |-> unbondingScript,
                  slashingScript |-> slashingScript,
                  network |-> network]
    /\ pc = "call"
    /\ ret = [b \in Builders |-> NotCalled]

BuilderCall(builder, result) ==
    /\ op = "lifecycle"
    /\ ~ret[builder].called
    /\ ret' = [ret EXCEPT ![builder] = [called |-> TRUE, result |-> result]]
    /\ pc' = IF \A b \in Builders \ {builder} : ret[b].called THEN "done" ELSE "call"
    /\ UNCHANGED <<op, args>>

LifecycleStaking ==
    BuilderCall("stakingTransaction",
                stakingTransaction(args.timelockScript, args.unbondingScript,
                                   args.slashingScript, 1, 1, "bcrt1-change",
                                   <<[txid |-> <<171>>, vout |-> 0,
                                      scriptPubKey |-> <<5, 1, 2, 0>>, value |-> 3]>>,
                                   args.network, Undefined, Undefined))

LifecycleUnbonding ==
    BuilderCall("unbondingTransaction",
                unbondingTransaction(args.unbondingScript, args.unbondingTimelockScript,
                                     args.timelockScript, args.slashingScript,
                                     TwoOutTx, 1, args.network, 0))

LifecycleWithdrawTimelock ==
    BuilderCall("withdrawTimelockUnbondedTransaction",
                withdrawTimelockUnbondedTransaction(args.timelockScript, args.slashingScript,
                                                    args.unbondingScript, TwoOutTx,
                                                    "bcrt1-withdraw", 1, args.network, 0))

LifecycleWithdrawEarly ==
    BuilderCall("withdrawEarlyUnbondedTransaction",
                withdrawEarlyUnbondedTransaction(args.unbondingTimelockScript,
                                                 args.slashingScript, TwoOutTx,
                                                 "bcrt1-withdraw", 1, args.network, 0))

NextLifecycle ==
    \/ LifecycleStaking
    \/ LifecycleUnbonding
    \/ LifecycleWithdrawTimelock
    \/ LifecycleWithdrawEarly

SpecLifecycle == InitLifecycle /\ [][NextLifecycle]_vars

\* the Taproot output that commits to a tree under the fixed internal key
CommitsTo(address, tree, network) ==
    address = [text |-> "", internalPubkey |-> internalPubkey, scriptTree |-> tree,
               network |-> network]

\* the input spends the leaf of a tree under the fixed internal key, leaf version 0xC0
SpendsLeafOf(input, tree, leaf) ==
    /\ input.tapInternalKey = internalPubkey
    /\ Len(input.tapLeafScript) = 1
    /\ input.tapLeafScript[1].script = leaf
    /\ input.tapLeafScript[1].leafVersion = 192
    /\ input.tapLeafScript[1].controlBlock =
           [internalPubkey |-> internalPubkey, scriptTree |-> tree, leaf |-> leaf,
            leafVersion |-> 192]

\* C14: for the same scripts and network, the staking output commits to the
\* tree [slashing, [unbonding, timelock]] under the fixed internal key, and
\* that is the tree from which withdrawTimelockUnbondedTransaction and
\* unbondingTransaction derive the control block of their input; the
\* unbonding output commits to [slashing, unbonding timelock], the tree
\* withdrawEarlyUnbondedTransaction spends from; every spent leaf has leaf
\* version 0xC0.
C14_CommitmentsAgree ==
    op = "lifecycle" =>
        LET stakingTree ==
                {<<(<<0>>), args.slashingScript>>, <<(<<1, 0>>), args.unbondingScript>>,
                 <<(<<1, 1>>), args.timelockScript>>}
            unbondingTree ==
                {<<(<<0>>), args.slashingScript>>, <<(<<1>>), args.unbondingTimelockScript>>}
            staking == ret["stakingTransaction"]
            unbonding == ret["unbondingTransaction"]
            withdrawTimelock == ret["withdrawTimelockUnbondedTransaction"]
            withdrawEarly == ret["withdrawEarlyUnbondedTransaction"]
        IN  /\ staking.called =>
                   /\ staking.result.ok
                   /\ CommitsTo(staking.result.psbt.outputs[1].address, stakingTree,
                                args.network)
            /\ withdrawTimelock.called =>
                   /\ withdrawTimelock.result.ok
                   /\ SpendsLeafOf(withdrawTimelock.result.psbt.inputs[1], stakingTree,
                                   args.timelockScript)
            /\ unbonding.called =>
                   /\ unbonding.result.ok
                   /\ SpendsLeafOf(unbonding.result.psbt.inputs[1], stakingTree,
                                   args.unbondingScript)
                   /\ CommitsTo(unbonding.result.psbt.outputs[1].address, unbondingTree,
                                args.network)
            /\ withdrawEarly.called =>
                   /\ withdrawEarly.result.ok
                   /\ SpendsLeafOf(withdrawEarly.result.psbt.inputs[1], unbondingTree,
                                   args.unbondingTimelockScript)
            /\ (staking.called /\ withdrawTimelock.called /\ unbonding.called) =>
                   LET committed == staking.result.psbt.outputs[1].address.scriptTree
                   IN  /\ withdrawTimelock.result.psbt.inputs[1].tapLeafScript[1]
                              .controlBlock.scriptTree = committed
                       /\ unbonding.result.psbt.inputs[1].tapLeafScript[1]
                              .controlBlock.scriptTree = committed
            /\ (unbonding.called /\ withdrawEarly.called) =>
                   withdrawEarly.result.psbt.inputs[1].tapLeafScript[1]
                       .controlBlock.scriptTree
                   = unbonding.result.psbt.outputs[1].address.scriptTree

C14_Witness ==
    /\ op = "lifecycle"
    /\ pc = "done"
    /\ \A b \in Builders : ret[b].called /\ ret[b].result.ok
    /\ args.unbondingScript = UnbondingLeaf
    /\ args.slashingScript = SlashingLeaf
    /\ args.network = "bitcoin"
    /\ args.timelockScript # args.unbondingTimelockScript
    /\ ret["withdrawEarlyUnbondedTransaction"].result.psbt.inputs[1].tapLeafScript[1]
           .controlBlock.scriptTree
       = ret["unbondingTransaction"].result.psbt.outputs[1].address.scriptTree

(***************************************************************************)
(* The library as a whole: any one of the calls above.                     *)
(***************************************************************************)
Init ==
    \/ InitStaking \/ InitUnbonding \/ InitSlashing \/ InitWithdrawal \/ InitMultiKey
    \/ InitWitness \/ InitScriptData \/ InitLifecycle

Next ==
    \/ NextStaking \/ NextUnbonding \/ NextSlashing \/ NextWithdrawal \/ NextMultiKey
    \/ NextWitness \/ NextScriptData \/ NextLifecycle

Spec == Init /\ [][Next]_vars

====
